---- MODULE Spec2Model ----
(***************************************************************************)
(* PCI bus enumeration and driver binding of the kernel                    *)
(* (kernel/drivers/pci/init.rs: pci_init and pci_device).                  *)
(*                                                                         *)
(* A 32-bit configuration register value is a record [hi, lo] of its two   *)
(* 16-bit halves, so that the u32 arithmetic of the size computation keeps *)
(* its width.  The scan is cut into one step per configuration access.     *)
(*                                                                         *)
(* TwinSpec steps two runs of pci_init side by side over identical         *)
(* configuration spaces; EventSpec applies the conversions of              *)
(* libredox/src/event.rs (to_event, from_event, to_option) to typed and    *)
(* plain events.                                                           *)
(***************************************************************************)
EXTENDS Integers, Sequences, FiniteSets, TLC

\* ------------------------------------------------------------------ bounds

\* Buses scanned.  The source scans 256; every trace of the three nested loops
\* over 256 * 32 * 8 addresses is longer than TLC's longest behaviour, so the
\* outermost range is cut to NumBuses and the two inner ranges keep their size.
NumBuses == 2

\* ---------------------------------------------------------------- 32-bit words

Half == 65536

W(h, l) == [hi |-> h, lo |-> l]

Zero == W(0, 0)

\* 0xFFFFFFFF
Ones == W(65535, 65535)

\* w & 0xFFFFFFF0
MaskFlags(w) == W(w.hi, w.lo - (w.lo % 16))

\* 0xFFFFFFFF - w (never underflows in u32)
SubFromOnes(w) == W(65535 - w.hi, 65535 - w.lo)

\* w + 1 in u32 arithmetic, wrapping at 2^32: the arithmetic of a build
\* without overflow checks (with them, 0xFFFFFFFF + 1 panics instead)
AddOne(w) ==
    IF w.lo + 1 < Half THEN W(w.hi, w.lo + 1) ELSE W((w.hi + 1) % Half, 0)

\* bar > 0 on a signed value: values with bit 31 set count as not positive
NonZeroSigned(w) == w.hi < 32768 /\ (w.hi # 0 \/ w.lo # 0)

\* a probe that sizes every BAR, the ones that read zero included
NonZeroAlways(w) == TRUE

\* bar > 0 for an unsigned value
NonZero(w) == w.hi # 0 \/ w.lo # 0

Pow2(n) == 2 ^ n

\* the low k bits of w, and w with its low k bits cleared (0 <= k <= 32)
LowBits(w, k) ==
    IF k <= 16 THEN W(0, w.lo % Pow2(k)) ELSE W(w.hi % Pow2(k - 16), w.lo)

ClearLow(w, k) ==
    IF k <= 16 THEN W(w.hi, w.lo - (w.lo % Pow2(k)))
    ELSE W(w.hi - (w.hi % Pow2(k - 16)), 0)

\* bitwise or of two words with disjoint bits
Join(a, b) == W(a.hi + b.hi, a.lo + b.lo)

\* ------------------------------------------------------- dispatch constants

MASS_STORAGE == 1
SERIAL_BUS == 12
IDE == 1
SATA == 6
USB == 3
AHCI == 1
UHCI == 0
OHCI == 16
EHCI == 32
XHCI == 48
REALTEK == 4332
INTEL == 32902
RTL8139 == 33081
GBE_82540EM == 4110
AC97_82801AA == 9237
AC97_ICH4 == 9413
INTELHDA_ICH6 == 9832

\* ------------------------------------------------------------ loop ranges

NumSlots == 32
NumFuncs == 8
NumBars == 6

TotalAddresses == NumBuses * NumSlots * NumFuncs

\* position of an address in the scan order of the three nested loops
Lin(b, s, f) == (b * NumSlots + s) * NumFuncs + f

LinOf(a) == Lin(a[1], a[2], a[3])

\* byte offset of BAR i (0-based): i * 4 + 0x10
BarOffset(k) == k * 4 + 16

IrqOffset == 60

\* ------------------------------------------- configuration space (hardware)

\* identity register of a function: device in the high half, vendor in the low
Ident(vendor, device) == W(device, vendor)

\* class register: class, subclass, programming interface, revision
ClassReg(c, s, p, r) == W(c * 256 + s, p * 256 + r)

\* A BAR register is its value and the number of its low bits that are
\* hardwired (32: the whole register is read-only; 0: plain storage).
Bar(v, k) == [val |-> v, ro |-> k]

BarPool ==
    << Bar(W(65024, 4), 12),      \* 0xFE000004: 4 KiB memory window
       Bar(Zero, 32),             \* unused BAR
       Bar(Ones, 0),              \* 0xFFFFFFFF, every bit writable
       Bar(W(0, 49153), 5),       \* 0x0000C001: 32-byte I/O window
       Bar(W(0, 8), 32),          \* 0x00000008, read-only: no size bit set
       Bar(W(57344, 0), 29) >>    \* 0xE0000000: 512 MiB memory window

\* interrupt-line bytes of the register at offset 0x3C
IrqLines == << 11, 255, 26, 5, 16, 0 >>

\* configuration space of a function: BAR i holds BarPool[i + rot]
Function(ident, class, rot) ==
    [ id   |-> ident,
      cls  |-> class,
      bars |-> [k \in 1..NumBars |-> BarPool[((k - 1 + rot) % NumBars) + 1]],
      irq  |-> W(0, 256 + IrqLines[rot + 1]) ]

\* an address no function answers: every read returns all-ones
Absent ==
    [ id   |-> Ones,
      cls  |-> Ones,
      bars |-> [k \in 1..NumBars |-> Bar(Ones, 32)],
      irq  |-> Ones ]

IdentClass ==
    { << Ident(INTEL, GBE_82540EM),   ClassReg(MASS_STORAGE, IDE, 128, 0) >>,
      << Ident(REALTEK, RTL8139),     ClassReg(MASS_STORAGE, SATA, AHCI, 1) >>,
      << Ident(INTEL, GBE_82540EM),   ClassReg(MASS_STORAGE, SATA, 0, 0) >>,
      << Ident(REALTEK, RTL8139),     ClassReg(MASS_STORAGE, 5, 0, 0) >>,
      << Ident(INTEL, INTELHDA_ICH6), ClassReg(SERIAL_BUS, USB, XHCI, 0) >>,
      << Ident(4660, 4369),           ClassReg(SERIAL_BUS, USB, XHCI, 3) >>,
      << Ident(INTEL, AC97_ICH4),     ClassReg(SERIAL_BUS, USB, EHCI, 0) >>,
      << Ident(INTEL, AC97_82801AA),  ClassReg(SERIAL_BUS, USB, OHCI, 0) >>,
      << Ident(REALTEK, RTL8139),     ClassReg(SERIAL_BUS, USB, UHCI, 0) >>,
      << Ident(REALTEK, RTL8139),     ClassReg(SERIAL_BUS, USB, 254, 0) >>,
      << Ident(INTEL, INTELHDA_ICH6), ClassReg(SERIAL_BUS, 5, 0, 0) >>,
      << Ident(INTEL, INTELHDA_ICH6), ClassReg(4, 3, 0, 2) >>,
      << Ident(INTEL, GBE_82540EM),   ClassReg(2, 0, 0, 0) >>,
      << Ident(INTEL, GBE_82540EM),   ClassReg(2, 0, 0, 7) >>,
      << Ident(REALTEK, RTL8139),     ClassReg(2, 0, 0, 16) >>,
      << Ident(INTEL, AC97_82801AA),  ClassReg(4, 1, 0, 0) >>,
      << Ident(INTEL, AC97_ICH4),     ClassReg(4, 1, 0, 0) >>,
      << Ident(REALTEK, 33128),       ClassReg(2, 0, 0, 0) >>,
      << Ident(INTEL, 65535),         ClassReg(6, 0, 0, 0) >>,
      << Ident(4660, 4369),           ClassReg(3, 0, 0, 0) >>,
      << Ident(65535, 4369),          ClassReg(2, 0, 0, 0) >> }

Catalogue ==
    { Function(ic[1], ic[2], rot) : ic \in IdentClass, rot \in 0..(NumBars - 1) }
      \cup {Absent}

\* one network function, one function no rule knows, or nothing
SmallCatalogue ==
    { Function(Ident(INTEL, GBE_82540EM), ClassReg(2, 0, 0, 0), 0),
      Function(Ident(4660, 4369), ClassReg(3, 0, 0, 0), 2),
      Absent }

FirstSite == << 0, 1, 0 >>

SecondSite == << 0, 2, 0 >>

LastAddress == << NumBuses - 1, NumSlots - 1, NumFuncs - 1 >>

\* what the configuration space can hold at an address: anything of the
\* catalogues at three addresses, nothing elsewhere
Functions(b, s, f) ==
    IF << b, s, f >> = FirstSite THEN SmallCatalogue
    ELSE IF << b, s, f >> \in { SecondSite, LastAddress } THEN Catalogue
    ELSE {Absent}

\* PciConfig::read
HwRead(c, off) ==
    CASE off = 0 -> c.id
      [] off = 8 -> c.cls
      [] off = IrqOffset -> c.irq
      [] OTHER -> c.bars[((off - 16) \div 4) + 1].val

\* PciConfig::write: the hardwired bits of a BAR keep their value, the
\* identity and class registers are read-only, the interrupt line is storage
HwWrite(c, off, w) ==
    CASE off = 0 -> c
      [] off = 8 -> c
      [] off = IrqOffset -> [c EXCEPT !.irq = w]
      [] OTHER ->
           LET k == ((off - 16) \div 4) + 1
               b == c.bars[k]
           IN  [c EXCEPT !.bars[k] =
                   Bar(Join(LowBits(b.val, b.ro), ClearLow(w, b.ro)), b.ro)]

\* ------------------------------------------------------------------ state

VARIABLES
    pc,          \* position in pci_init / pci_device
    iter,        \* the (bus, slot, func) the three loops yield next
    pci,         \* PciConfig::new(bus, slot, func) of the current iteration
    id,          \* let id = pci.read(0)
    class_id,    \* let class_id = pci.read(8)
    i,           \* BAR loop index
    bar,         \* let bar = pci.read(i * 4 + 0x10)
    size,        \* let size = ...
    base,        \* let base = pci.read(0x10) of pci_device
    schemes,     \* env.schemes
    cfg,         \* configuration space of the function at pci
    orig,        \* cfg as it was when the scanner reached pci
    accesses,    \* the configuration accesses made at pci, in order
    debug,       \* the debug! output produced at pci
    constructed, \* the drivers constructed so far: << address, driver >>
    idReads,     \* number of identity-register reads so far
    present,     \* number of functions found present so far
    ev,          \* a typed event on its way through Event to EventOption
    twin         \* a second run of pci_init, parked while the first one steps

vars == << pc, iter, pci, id, class_id, i, bar, size, base, schemes, cfg, orig,
           accesses, debug, constructed, idReads, present, ev, twin >>

\* the variables that are not pci_init's
aux == << ev, twin >>

Rd(off, w) == [op |-> "read", off |-> off, val |-> w]

Wr(off, w) == [op |-> "write", off |-> off, val |-> w]

Line(t, n, w) == [tag |-> t, n |-> n, w |-> w]

\* a registry entry; params is << base, memory_mapped, irq >> for the drivers
\* built from BAR0 and the interrupt line, << >> for the others
Scheme(a, d, p) == [addr |-> a, driver |-> d, params |-> p]

FirstAddress == << 0, 0, 0 >>

IterEnd == << NumBuses, 0, 0 >>

\* an inner range that stops one short: function 7 is never visited
IterNextShort(a) ==
    IF a[3] + 1 < NumFuncs - 1 THEN << a[1], a[2], a[3] + 1 >>
    ELSE IF a[2] + 1 < NumSlots THEN << a[1], a[2] + 1, 0 >>
    ELSE << a[1] + 1, 0, 0 >>

\* the loops nested the other way round: slots innermost, functions around them
IterNextSlotInner(a) ==
    IF a[2] + 1 < NumSlots THEN << a[1], a[2] + 1, a[3] >>
    ELSE IF a[3] + 1 < NumFuncs THEN << a[1], 0, a[3] + 1 >>
    ELSE << a[1] + 1, 0, 0 >>

\* the three nested range loops, innermost first
IterNext(a) ==
    IF a[3] + 1 < NumFuncs THEN << a[1], a[2], a[3] + 1 >>
    ELSE IF a[2] + 1 < NumSlots THEN << a[1], a[2] + 1, 0 >>
    ELSE << a[1] + 1, 0, 0 >>

ScanInit ==
    /\ pc = "loop"
    /\ iter = FirstAddress
    /\ pci = << >>
    /\ id = Zero
    /\ class_id = Zero
    /\ i = 0
    /\ bar = Zero
    /\ size = Zero
    /\ base = Zero
    /\ schemes = << >>
    /\ cfg = Absent
    /\ orig = Absent
    /\ accesses = << >>
    /\ debug = << >>
    /\ constructed = << >>
    /\ idReads = 0
    /\ present = 0

\* Event::new(): the null event
NullEvent == [code |-> 0, a |-> 0, b |-> 0, c |-> 0, d |-> 0, e |-> 0]

\* no event is on its way
EvIdle ==
    [stage |-> "idle", typed |-> [kind |-> "Raw"], event |-> NullEvent,
     option |-> [tag |-> "Pending"]]

\* pci_init runs once
NoTwin == [turn |-> "alone", st |-> << >>]

Init == ScanInit /\ ev = EvIdle /\ twin = NoTwin

\* a presence test on the whole register: id != 0xFFFFFFFF
IsPresentWhole(ident) == ident # Ones

\* (id & 0xFFFF) != 0xFFFF
IsPresent(ident) == ident.lo # 65535

\* one iteration of the loops up to the presence test: PciConfig::new,
\* pci.read(0), and the test; an absent function ends the iteration
ProbeId ==
    /\ pc = "loop"
    /\ iter # IterEnd
    /\ \E c \in Functions(iter[1], iter[2], iter[3]) :
          /\ cfg' = c
          /\ orig' = c
          /\ id' = HwRead(c, 0)
          /\ accesses' = << Rd(0, HwRead(c, 0)) >>
          /\ pc' = IF IsPresent(HwRead(c, 0)) THEN "class" ELSE "loop"
          /\ present' = IF IsPresent(HwRead(c, 0)) THEN present + 1 ELSE present
    /\ pci' = iter
    /\ iter' = IterNext(iter)
    /\ idReads' = idReads + 1
    /\ debug' = << >>
    /\ class_id' = Zero
    /\ i' = 0
    /\ bar' = Zero
    /\ size' = Zero
    /\ base' = Zero
    /\ UNCHANGED << schemes, constructed >>

\* let class_id = pci.read(8); debug!(" * PCI ...")
ReadClass ==
    /\ pc = "class"
    /\ class_id' = HwRead(cfg, 8)
    /\ accesses' = Append(accesses, Rd(8, HwRead(cfg, 8)))
    /\ debug' = Append(debug, Line("pci", 0, id))
    /\ i' = 0
    /\ pc' = "bar"
    /\ UNCHANGED << iter, pci, id, bar, size, base, schemes, cfg, orig,
                    constructed, idReads, present >>

\* where the BAR loop goes after BAR k
AfterBar(k) == IF k + 1 < NumBars THEN "bar" ELSE "dispatch"

\* debug::dl() once the BAR loop is over
EndLine(k, out) ==
    IF k + 1 < NumBars THEN out ELSE Append(out, [tag |-> "dl", n |-> 0, w |-> [hi |-> 0, lo |-> 0]])

\* let bar = pci.read(i * 4 + 0x10); if bar > 0 { debug!(" BAR{}: {:X}") ...
BarRead ==
    /\ pc = "bar"
    /\ LET v == HwRead(cfg, BarOffset(i)) IN
          /\ bar' = v
          /\ accesses' = Append(accesses, Rd(BarOffset(i), v))
          /\ IF NonZero(v)
                THEN /\ debug' = Append(debug, Line("bar", i, v))
                     /\ pc' = "bar_ones"
                     /\ i' = i
                ELSE /\ debug' = EndLine(i, debug)
                     /\ pc' = AfterBar(i)
                     /\ i' = IF i + 1 < NumBars THEN i + 1 ELSE i
    /\ UNCHANGED << iter, pci, id, class_id, size, base, schemes, cfg, orig,
                    constructed, idReads, present >>

\* pci.write(i * 4 + 0x10, 0xFFFFFFFF)
BarWriteOnes ==
    /\ pc = "bar_ones"
    /\ cfg' = HwWrite(cfg, BarOffset(i), Ones)
    /\ accesses' = Append(accesses, Wr(BarOffset(i), Ones))
    /\ pc' = "bar_size"
    /\ UNCHANGED << iter, pci, id, class_id, i, bar, size, base, schemes, orig,
                    debug, constructed, idReads, present >>

\* the size without the mask of the flag bits
BarSizeNoMask(readback) == AddOne(SubFromOnes(readback))

\* (0xFFFFFFFF - (readback & 0xFFFFFFF0)) + 1, in u32
BarSize(readback) == AddOne(SubFromOnes(MaskFlags(readback)))

\* let size = (0xFFFFFFFF - (pci.read(i * 4 + 0x10) & 0xFFFFFFF0)) + 1
BarReadBack ==
    /\ pc = "bar_size"
    /\ size' = BarSize(HwRead(cfg, BarOffset(i)))
    /\ accesses' = Append(accesses, Rd(BarOffset(i), HwRead(cfg, BarOffset(i))))
    /\ pc' = "bar_restore"
    /\ UNCHANGED << iter, pci, id, class_id, i, bar, base, schemes, cfg, orig,
                    debug, constructed, idReads, present >>

\* a probe that leaves the probe pattern in the BAR
RestoreValueOnes == Ones

\* a probe that writes the computed size back to the BAR
RestoreValueSize == size

\* the value written back to the BAR
RestoreValue == bar

\* a probe that writes the BAR back only when it found a size
BarRestoreIfSized ==
    /\ pc = "bar_restore"
    /\ cfg' = IF NonZero(size) THEN HwWrite(cfg, BarOffset(i), RestoreValue)
              ELSE cfg
    /\ accesses' = IF NonZero(size)
                   THEN Append(accesses, Wr(BarOffset(i), RestoreValue))
                   ELSE accesses
    /\ debug' = EndLine(i, IF NonZero(size)
                              THEN Append(debug, Line("size", i, size))
                              ELSE debug)
    /\ pc' = AfterBar(i)
    /\ i' = IF i + 1 < NumBars THEN i + 1 ELSE i
    /\ UNCHANGED << iter, pci, id, class_id, bar, size, base, schemes, orig,
                    constructed, idReads, present >>

\* pci.write(i * 4 + 0x10, bar); if size > 0 { debug!(" {}", size) }
BarRestore ==
    /\ pc = "bar_restore"
    /\ cfg' = HwWrite(cfg, BarOffset(i), RestoreValue)
    /\ accesses' = Append(accesses, Wr(BarOffset(i), RestoreValue))
    /\ debug' = EndLine(i, IF NonZero(size)
                              THEN Append(debug, Line("size", i, size))
                              ELSE debug)
    /\ pc' = AfterBar(i)
    /\ i' = IF i + 1 < NumBars THEN i + 1 ELSE i
    /\ UNCHANGED << iter, pci, id, class_id, bar, size, base, schemes, orig,
                    constructed, idReads, present >>

\* ------------------------------------------------------------- pci_device

\* the arguments pci_init passes to pci_device
ClassOf(c) == c.hi \div 256

SubclassOf(c) == c.hi % 256

\* the interface taken from the low byte of the class register
InterfaceOfLow(c) == c.lo % 256

InterfaceOf(c) == c.lo \div 256

VendorOf(v) == v.lo

\* the device id taken from the low half of the identity register
DeviceOfLow(v) == v.lo

DeviceOf(v) == v.hi

\* a dispatch whose class tier has no else branch: no vendor/device tier
DriverClassOnly(class, subclass, interface, vendor, device) ==
    IF class = MASS_STORAGE /\ subclass = IDE THEN "Ide"
    ELSE IF class = MASS_STORAGE /\ subclass = SATA /\ interface = AHCI THEN "Ahci"
    ELSE IF class = SERIAL_BUS /\ subclass = USB /\ interface = XHCI THEN "Xhci"
    ELSE IF class = SERIAL_BUS /\ subclass = USB /\ interface = EHCI THEN "Ehci"
    ELSE IF class = SERIAL_BUS /\ subclass = USB /\ interface = OHCI THEN "Ohci"
    ELSE IF class = SERIAL_BUS /\ subclass = USB /\ interface = UHCI THEN "Uhci"
    ELSE IF class = SERIAL_BUS /\ subclass = USB THEN "UnknownUsb"
    ELSE "None"

\* a dispatch that tries the vendor/device tier before the class tier
DriverVendorFirst(class, subclass, interface, vendor, device) ==
    IF vendor = REALTEK /\ device = RTL8139 THEN "Rtl8139"
    ELSE IF vendor = INTEL /\ device = GBE_82540EM THEN "Intel8254x"
    ELSE IF vendor = INTEL /\ device \in { AC97_82801AA, AC97_ICH4 } THEN "AC97"
    ELSE IF vendor = INTEL /\ device = INTELHDA_ICH6 THEN "IntelHDA"
    ELSE IF class = MASS_STORAGE THEN
        IF subclass = IDE THEN "Ide"
        ELSE IF subclass = SATA /\ interface = AHCI THEN "Ahci"
        ELSE "None"
    ELSE IF class = SERIAL_BUS /\ subclass = USB THEN
        IF interface = XHCI THEN "Xhci"
        ELSE IF interface = EHCI THEN "Ehci"
        ELSE IF interface = OHCI THEN "Ohci"
        ELSE IF interface = UHCI THEN "Uhci"
        ELSE "UnknownUsb"
    ELSE "None"

\* a dispatch whose USB branch leaves an unknown interface to the
\* vendor/device tier
DriverUsbFallsThrough(class, subclass, interface, vendor, device) ==
    IF class = MASS_STORAGE THEN
        IF subclass = IDE THEN "Ide"
        ELSE IF subclass = SATA /\ interface = AHCI THEN "Ahci"
        ELSE "None"
    ELSE IF class = SERIAL_BUS /\ subclass = USB /\ interface = XHCI THEN "Xhci"
    ELSE IF class = SERIAL_BUS /\ subclass = USB /\ interface = EHCI THEN "Ehci"
    ELSE IF class = SERIAL_BUS /\ subclass = USB /\ interface = OHCI THEN "Ohci"
    ELSE IF class = SERIAL_BUS /\ subclass = USB /\ interface = UHCI THEN "Uhci"
    ELSE IF vendor = REALTEK THEN
        IF device = RTL8139 THEN "Rtl8139" ELSE "None"
    ELSE IF vendor = INTEL THEN
        IF device = GBE_82540EM THEN "Intel8254x"
        ELSE IF device = AC97_82801AA \/ device = AC97_ICH4 THEN "AC97"
        ELSE IF device = INTELHDA_ICH6 THEN "IntelHDA"
        ELSE "None"
    ELSE "None"

\* the branch of pci_device taken for a device: the driver it constructs,
\* "UnknownUsb" for the diagnostic branch, "None" when no branch constructs
Driver(class, subclass, interface, vendor, device) ==
    IF class = MASS_STORAGE THEN
        IF subclass = IDE THEN "Ide"
        ELSE IF subclass = SATA /\ interface = AHCI THEN "Ahci"
        ELSE "None"
    ELSE IF class = SERIAL_BUS /\ subclass = USB THEN
        IF interface = XHCI THEN "Xhci"
        ELSE IF interface = EHCI THEN "Ehci"
        ELSE IF interface = OHCI THEN "Ohci"
        ELSE IF interface = UHCI THEN "Uhci"
        ELSE "UnknownUsb"
    ELSE IF vendor = REALTEK THEN
        IF device = RTL8139 THEN "Rtl8139" ELSE "None"
    ELSE IF vendor = INTEL THEN
        IF device = GBE_82540EM THEN "Intel8254x"
        ELSE IF device = AC97_82801AA \/ device = AC97_ICH4 THEN "AC97"
        ELSE IF device = INTELHDA_ICH6 THEN "IntelHDA"
        ELSE "None"
    ELSE "None"

\* the branch taken with the arguments of the call at the end of the iteration
Chosen ==
    Driver(ClassOf(class_id), SubclassOf(class_id), InterfaceOf(class_id),
           VendorOf(id), DeviceOf(id))

DiskDrivers == { "Ide", "Ahci" }

MappedDrivers == { "Xhci", "IntelHDA" }

PlainDrivers == { "Ehci", "Ohci", "Uhci", "Rtl8139", "Intel8254x", "AC97" }

\* a dispatch that registers one resource per disk: two entries for two disks
DispatchDiskPerDisk ==
    /\ pc = "dispatch"
    /\ Chosen \in DiskDrivers
    /\ constructed' = Append(constructed, << pci, Chosen >>)
    /\ \E disks \in 0..2 :
          schemes' = schemes \o [k \in 1..disks |-> Scheme(pci, Chosen, << >>)]
    /\ pc' = "loop"
    /\ UNCHANGED << iter, pci, id, class_id, i, bar, size, base, cfg, orig,
                    accesses, debug, idReads, present >>

\* if let Some(module) = FileScheme::new(Ide::disks(pci)) { push }, and the
\* same for Ahci: the disks are constructed, FileScheme::new may yield None
DispatchDisk ==
    /\ pc = "dispatch"
    /\ Chosen \in DiskDrivers
    /\ constructed' = Append(constructed, << pci, Chosen >>)
    /\ \E some \in BOOLEAN :
          schemes' = IF some THEN Append(schemes, Scheme(pci, Chosen, << >>))
                     ELSE schemes
    /\ pc' = "loop"
    /\ UNCHANGED << iter, pci, id, class_id, i, bar, size, base, cfg, orig,
                    accesses, debug, idReads, present >>

\* env.schemes.push(UnsafeCell::new(Ehci::new(pci))) and the like
DispatchPlain ==
    /\ pc = "dispatch"
    /\ Chosen \in PlainDrivers
    /\ constructed' = Append(constructed, << pci, Chosen >>)
    /\ schemes' = Append(schemes, Scheme(pci, Chosen, << >>))
    /\ pc' = "loop"
    /\ UNCHANGED << iter, pci, id, class_id, i, bar, size, base, cfg, orig,
                    accesses, debug, idReads, present >>

\* a dispatch that builds the driver first and fills in its irq afterwards
DispatchReadBaseBuilt ==
    /\ pc = "dispatch"
    /\ Chosen \in MappedDrivers
    /\ base' = HwRead(cfg, BarOffset(0))
    /\ accesses' = Append(accesses, Rd(BarOffset(0), HwRead(cfg, BarOffset(0))))
    /\ constructed' = Append(constructed, << pci, Chosen >>)
    /\ pc' = "mapped"
    /\ UNCHANGED << iter, pci, id, class_id, i, bar, size, schemes, cfg, orig,
                    debug, idReads, present >>

\* let base = pci.read(0x10) as usize (Xhci and IntelHDA)
DispatchReadBase ==
    /\ pc = "dispatch"
    /\ Chosen \in MappedDrivers
    /\ base' = HwRead(cfg, BarOffset(0))
    /\ accesses' = Append(accesses, Rd(BarOffset(0), HwRead(cfg, BarOffset(0))))
    /\ pc' = "mapped"
    /\ UNCHANGED << iter, pci, id, class_id, i, bar, size, schemes, cfg, orig,
                    debug, constructed, idReads, present >>

\* the interrupt line without the mask of its high nibble
IrqOfByte(w) == w.lo % 256

\* pci.read(0x3C) as u8 & 0xF
IrqOf(w) == (w.lo % 256) % 16

\* a driver whose irq field is left to whatever the memory holds
DispatchMappedAnyIrq ==
    /\ pc = "mapped"
    /\ accesses' = Append(accesses, Rd(IrqOffset, HwRead(cfg, IrqOffset)))
    /\ constructed' = Append(constructed, << pci, Chosen >>)
    /\ \E q \in 0..15 :
          schemes' = Append(schemes,
                            Scheme(pci, Chosen,
                                   << MaskFlags(base), base.lo % 2 = 0, q >>))
    /\ pc' = "loop"
    /\ UNCHANGED << iter, pci, id, class_id, i, bar, size, base, cfg, orig,
                    debug, idReads, present >>

\* box Xhci { pci, base: base & 0xFFFFFFF0, memory_mapped: base & 1 == 0,
\* irq: pci.read(0x3C) as u8 & 0xF }; module.init(); env.schemes.push(...)
DispatchMapped ==
    /\ pc = "mapped"
    /\ accesses' = Append(accesses, Rd(IrqOffset, HwRead(cfg, IrqOffset)))
    /\ constructed' = Append(constructed, << pci, Chosen >>)
    /\ schemes' = Append(schemes,
                         Scheme(pci, Chosen,
                                << MaskFlags(base), base.lo % 2 = 0,
                                   IrqOf(HwRead(cfg, IrqOffset)) >>))
    /\ pc' = "loop"
    /\ UNCHANGED << iter, pci, id, class_id, i, bar, size, base, cfg, orig,
                    debug, idReads, present >>

\* debug!("Unknown USB interface version {:X}\n", interface_id)
DispatchUnknownUsb ==
    /\ pc = "dispatch"
    /\ Chosen = "UnknownUsb"
    /\ debug' = Append(debug, Line("usb", InterfaceOf(class_id), Zero))
    /\ pc' = "loop"
    /\ UNCHANGED << iter, pci, id, class_id, i, bar, size, base, schemes, cfg,
                    orig, accesses, constructed, idReads, present >>

\* an unknown device that ends the scan (a panic in the catch-all arm)
DispatchNoneAbort ==
    /\ pc = "dispatch"
    /\ Chosen = "None"
    /\ pc' = "done"
    /\ UNCHANGED << iter, pci, id, class_id, i, bar, size, base, schemes, cfg,
                    orig, accesses, debug, constructed, idReads, present >>

\* no branch constructs anything
DispatchNone ==
    /\ pc = "dispatch"
    /\ Chosen = "None"
    /\ pc' = "loop"
    /\ UNCHANGED << iter, pci, id, class_id, i, bar, size, base, schemes, cfg,
                    orig, accesses, debug, constructed, idReads, present >>

\* the outermost loop is exhausted: pci_init returns
Finish ==
    /\ pc = "loop"
    /\ iter = IterEnd
    /\ pc' = "done"
    /\ UNCHANGED << iter, pci, id, class_id, i, bar, size, base, schemes, cfg,
                    orig, accesses, debug, constructed, idReads, present >>

Next ==
    \/ ProbeId /\ UNCHANGED aux
    \/ ReadClass /\ UNCHANGED aux
    \/ BarRead /\ UNCHANGED aux
    \/ BarWriteOnes /\ UNCHANGED aux
    \/ BarReadBack /\ UNCHANGED aux
    \/ BarRestore /\ UNCHANGED aux
    \/ DispatchDisk /\ UNCHANGED aux
    \/ DispatchPlain /\ UNCHANGED aux
    \/ DispatchReadBase /\ UNCHANGED aux
    \/ DispatchMapped /\ UNCHANGED aux
    \/ DispatchUnknownUsb /\ UNCHANGED aux
    \/ DispatchNone /\ UNCHANGED aux
    \/ Finish /\ UNCHANGED aux

Spec == Init /\ [][Next]_vars

\* pci_init runs to completion on one thread: no step is postponed forever
FairSpec == Spec /\ WF_vars(Next)

\* ---------------------------------------------------- libredox: event.rs

\* pci_init's variables, which the event conversions leave alone
scan == << pc, iter, pci, id, class_id, i, bar, size, base, schemes, cfg, orig,
           accesses, debug, constructed, idReads, present >>

\* `as u32` and `as usize` of an isize (32-bit target): the same bits,
\* read as an unsigned word
AsU32(n) == W((n \div Half) % Half, n % Half)

\* `as isize` of a usize: the same bits, read as a signed value
AsIsize(w) ==
    IF w.hi >= 32768 THEN (w.hi - Half) * Half + w.lo ELSE w.hi * Half + w.lo

\* `as u8` of an isize
AsU8(n) == n % 256

\* `as isize` of a bool
BoolAsIsize(b) == IF b THEN 1 ELSE 0

\* char::from_u32: a scalar value up to 0x10FFFF that is no surrogate
char_from_u32(u) ==
    IF (u.hi = 0 /\ (u.lo < 55296 \/ u.lo > 57343)) \/ (u.hi >= 1 /\ u.hi <= 16)
    THEN [some |-> TRUE, character |-> u.hi * Half + u.lo]
    ELSE [some |-> FALSE, character |-> 0]

\* the event codes 'm', 'k', 'r', 'o'
CodeMouse == 109

CodeKey == 107

CodeRedraw == 114

CodeOpen == 111

MouseEvent_to_event(m) ==
    [code |-> CodeMouse, a |-> m.x, b |-> m.y,
     c |-> BoolAsIsize(m.left_button),
     d |-> BoolAsIsize(m.middle_button),
     e |-> BoolAsIsize(m.right_button)]

\* a conversion that reads the buttons in the order of the struct's fields
MouseEvent_from_event_swapped(event) ==
    [kind |-> "Mouse", x |-> event.a, y |-> event.b,
     left_button |-> event.c > 0,
     right_button |-> event.d > 0,
     middle_button |-> event.e > 0]

MouseEvent_from_event(event) ==
    [kind |-> "Mouse", x |-> event.a, y |-> event.b,
     left_button |-> event.c > 0,
     middle_button |-> event.d > 0,
     right_button |-> event.e > 0]

KeyEvent_to_event(k) ==
    [code |-> CodeKey, a |-> k.character, b |-> k.scancode,
     c |-> BoolAsIsize(k.pressed), d |-> 0, e |-> 0]

KeyEvent_from_event(event) ==
    LET found == char_from_u32(AsU32(event.a))
    IN  [kind |-> "Key",
         character |-> IF found.some THEN found.character ELSE 0,
         scancode |-> AsU8(event.b),
         pressed |-> event.c > 0]

RedrawEvent_to_event(r) ==
    [code |-> CodeRedraw, a |-> AsIsize(r.redraw), b |-> 0, c |-> 0, d |-> 0,
     e |-> 0]

RedrawEvent_from_event(event) == [kind |-> "Redraw", redraw |-> AsU32(event.a)]

\* OpenEvent::from_event: the bytes found at the address event.a, up to the
\* first 0; mem is what the memory holds there
OpenEvent_from_event(event, mem) == [kind |-> "Open", url_string |-> mem]

\* Event::to_option
to_option(event, mem) ==
    CASE event.code = CodeMouse ->
            [tag |-> "Mouse", val |-> MouseEvent_from_event(event)]
      [] event.code = CodeKey ->
            [tag |-> "Key", val |-> KeyEvent_from_event(event)]
      [] event.code = CodeRedraw ->
            [tag |-> "Redraw", val |-> RedrawEvent_from_event(event)]
      [] event.code = CodeOpen ->
            [tag |-> "Open", val |-> OpenEvent_from_event(event, mem)]
      [] event.code = 0 -> [tag |-> "None", val |-> [kind |-> "None"]]
      [] OTHER -> [tag |-> "Unknown", val |-> event]

\* the typed events and the plain events the conversions are applied to
IsizeSamples == { -2147483647 - 1, -1, 0, 1, 2147483647 }

MouseEvents ==
    [kind : { "Mouse" }, x : IsizeSamples, y : IsizeSamples,
     left_button : BOOLEAN, right_button : BOOLEAN, middle_button : BOOLEAN]

\* '\0', 'a', U+D7FF, U+E000, U+10FFFF
Chars == { 0, 97, 55295, 57344, 1114111 }

KeyEvents ==
    [kind : { "Key" }, character : Chars, scancode : { 0, 1, 88, 255 },
     pressed : BOOLEAN]

\* REDRAW_NONE, REDRAW_CURSOR, REDRAW_ALL and two values with bit 31 set
RedrawEvents ==
    [kind : { "Redraw" },
     redraw : { Zero, W(0, 1), W(0, 2), W(32768, 0), Ones }]

\* 'm', 'k', 'r', 'o', '\0', and the unknown codes 'x' and 'M'
RawEvents ==
    [code : { CodeMouse, CodeKey, CodeRedraw, CodeOpen, 0, 120, 77 },
     a : { -1, 0, 97, 55296 }, b : { 0, 300 }, c : { -1, 0, 2 },
     d : { 0, 1 }, e : { 0, 1 }]

\* what the memory at the address of an open event may hold: "", "fo"
Urls == { << >>, << 102, 111 >> }

EvInit ==
    /\ ScanInit
    /\ twin = NoTwin
    /\ ev \in { [EvIdle EXCEPT !.stage = "typed", !.typed = t] :
                    t \in MouseEvents \cup KeyEvents \cup RedrawEvents }
              \cup { [EvIdle EXCEPT !.stage = "event", !.event = r] :
                         r \in RawEvents }

\* MouseEvent::trigger: self.to_event()
MouseTrigger ==
    /\ ev.stage = "typed"
    /\ ev.typed.kind = "Mouse"
    /\ ev' = [ev EXCEPT !.stage = "event",
                        !.event = MouseEvent_to_event(ev.typed)]
    /\ UNCHANGED << scan, twin >>

\* KeyEvent::trigger: self.to_event()
KeyTrigger ==
    /\ ev.stage = "typed"
    /\ ev.typed.kind = "Key"
    /\ ev' = [ev EXCEPT !.stage = "event",
                        !.event = KeyEvent_to_event(ev.typed)]
    /\ UNCHANGED << scan, twin >>

\* RedrawEvent::trigger: self.to_event()
RedrawTrigger ==
    /\ ev.stage = "typed"
    /\ ev.typed.kind = "Redraw"
    /\ ev' = [ev EXCEPT !.stage = "event",
                        !.event = RedrawEvent_to_event(ev.typed)]
    /\ UNCHANGED << scan, twin >>

\* the receiver of an event calls to_option on it
ToOption ==
    /\ ev.stage = "event"
    /\ \E mem \in Urls :
          ev' = [ev EXCEPT !.stage = "option",
                           !.option = to_option(ev.event, mem)]
    /\ UNCHANGED << scan, twin >>

EvNext ==
    \/ MouseTrigger
    \/ KeyTrigger
    \/ RedrawTrigger
    \/ ToOption

EventSpec == EvInit /\ [][EvNext]_vars

\* ------------------------------------------------- two runs of pci_init

\* the state of a run of pci_init, with its own configuration space
State ==
    [pc |-> pc, iter |-> iter, pci |-> pci, id |-> id, class_id |-> class_id,
     i |-> i, bar |-> bar, size |-> size, base |-> base, schemes |-> schemes,
     cfg |-> cfg, orig |-> orig, accesses |-> accesses, debug |-> debug,
     constructed |-> constructed, idReads |-> idReads, present |-> present]

\* two runs start from the same state; twin.st is the run that is parked
TwinInit ==
    /\ ScanInit
    /\ ev = EvIdle
    /\ twin = [turn |-> "sync", st |-> State]

\* the runs step side by side: the running one takes a step ("sync" to
\* "ahead"), the runs change places ("behind"), and the other takes its step
Twin(A) ==
    /\ twin.turn \in { "sync", "behind" }
    /\ A
    /\ twin' = [twin EXCEPT !.turn = IF twin.turn = "sync" THEN "ahead"
                                     ELSE "sync"]
    /\ UNCHANGED ev

\* the two configuration spaces are identical: the run that comes second to
\* an address finds there what the first one found
TwinProbeId ==
    /\ Twin(ProbeId)
    /\ twin.turn = "behind" => orig' = twin.st.orig

\* the running run is parked and the parked one runs
Swap ==
    /\ twin.turn = "ahead"
    /\ pc' = twin.st.pc
    /\ iter' = twin.st.iter
    /\ pci' = twin.st.pci
    /\ id' = twin.st.id
    /\ class_id' = twin.st.class_id
    /\ i' = twin.st.i
    /\ bar' = twin.st.bar
    /\ size' = twin.st.size
    /\ base' = twin.st.base
    /\ schemes' = twin.st.schemes
    /\ cfg' = twin.st.cfg
    /\ orig' = twin.st.orig
    /\ accesses' = twin.st.accesses
    /\ debug' = twin.st.debug
    /\ constructed' = twin.st.constructed
    /\ idReads' = twin.st.idReads
    /\ present' = twin.st.present
    /\ twin' = [turn |-> "behind", st |-> State]
    /\ UNCHANGED ev

TwinNext ==
    \/ TwinProbeId
    \/ Twin(ReadClass)
    \/ Twin(BarRead)
    \/ Twin(BarWriteOnes)
    \/ Twin(BarReadBack)
    \/ Twin(BarRestore)
    \/ Twin(DispatchDisk)
    \/ Twin(DispatchPlain)
    \/ Twin(DispatchReadBase)
    \/ Twin(DispatchMapped)
    \/ Twin(DispatchUnknownUsb)
    \/ Twin(DispatchNone)
    \/ Twin(Finish)
    \/ Swap

TwinSpec == TwinInit /\ [][TwinNext]_vars

\* ------------------------------------------------------------- properties

\* the scanner has reached an address and found a function there
AtFunction == pci # << >> /\ orig.id.lo # 65535

\* the iteration for the function at pci is over (pci_device has returned)
Dispatched == AtFunction /\ pc \in { "loop", "done" }

\* the BAR indices of the function at pci whose probe is over
ProbedBars ==
    IF pc \in { "bar", "bar_ones", "bar_size", "bar_restore" } THEN 0..(i - 1)
    ELSE IF pc \in { "dispatch", "mapped" } \/ Dispatched THEN 0..(NumBars - 1)
    ELSE {}

\* the elements of a sequence of records or pairs that belong to address a
SchemesAt(a) == SelectSeq(schemes, LAMBDA e : e.addr = a)

ConstructedAt(a) == SelectSeq(constructed, LAMBDA e : e[1] = a)

Occurs(x, seq) == \E j \in 1..Len(seq) : seq[j] = x

\* C1: once the probe of a BAR of a present function is over, the BAR holds
\* the value it held when the scanner reached the function, whatever that
\* value was and whether or not a size was printed.
BarRestored ==
    \A k \in ProbedBars : cfg.bars[k + 1].val = orig.bars[k + 1].val

\* a BAR holding 0xFE000004 was overwritten with the probe pattern and holds
\* 0xFE000004 again when the BAR loop is over
BarRestoredWitness ==
    /\ pc = "dispatch"
    /\ \E k \in 0..(NumBars - 1) :
          /\ orig.bars[k + 1].val = W(65024, 4)
          /\ Occurs(Wr(BarOffset(k), Ones), accesses)
          /\ Occurs(Rd(BarOffset(k), W(65535, 61444)), accesses)
          /\ cfg.bars[k + 1].val = W(65024, 4)

\* C2: an address whose identity register reads vendor 0xFFFF gets exactly
\* one configuration access, the identity read: no class read, no BAR access,
\* no call of pci_device, nothing constructed or registered for it.
AbsentOneAccess ==
    (pci # << >> /\ orig.id.lo = 65535) =>
        /\ accesses = << Rd(0, orig.id) >>
        /\ pc \in { "loop", "done" }
        /\ debug = << >>
        /\ SchemesAt(pci) = << >>
        /\ ConstructedAt(pci) = << >>
        /\ cfg = orig

\* the last address answers vendor 0xFFFF with a device id that is not
\* 0xFFFF, and the scanner has left it after the one read
AbsentOneAccessWitness ==
    /\ pci = LastAddress
    /\ orig.id = Ident(65535, 4369)
    /\ pc = "done"
    /\ Len(accesses) = 1

\* the rules as the dispatch table states them: the driver of the class tier
\* for a class register, and of the vendor/device tier for an identity
ClassRule(c) ==
    IF ClassOf(c) = MASS_STORAGE /\ SubclassOf(c) = IDE THEN "Ide"
    ELSE IF ClassOf(c) = MASS_STORAGE /\ SubclassOf(c) = SATA
            /\ InterfaceOf(c) = AHCI THEN "Ahci"
    ELSE IF ClassOf(c) = SERIAL_BUS /\ SubclassOf(c) = USB
            /\ InterfaceOf(c) = XHCI THEN "Xhci"
    ELSE IF ClassOf(c) = SERIAL_BUS /\ SubclassOf(c) = USB
            /\ InterfaceOf(c) = EHCI THEN "Ehci"
    ELSE IF ClassOf(c) = SERIAL_BUS /\ SubclassOf(c) = USB
            /\ InterfaceOf(c) = OHCI THEN "Ohci"
    ELSE IF ClassOf(c) = SERIAL_BUS /\ SubclassOf(c) = USB
            /\ InterfaceOf(c) = UHCI THEN "Uhci"
    ELSE "None"

VendorRule(v) ==
    IF VendorOf(v) = REALTEK /\ DeviceOf(v) = RTL8139 THEN "Rtl8139"
    ELSE IF VendorOf(v) = INTEL /\ DeviceOf(v) = GBE_82540EM THEN "Intel8254x"
    ELSE IF VendorOf(v) = INTEL /\ DeviceOf(v) \in { AC97_82801AA, AC97_ICH4 }
        THEN "AC97"
    ELSE IF VendorOf(v) = INTEL /\ DeviceOf(v) = INTELHDA_ICH6 THEN "IntelHDA"
    ELSE "None"

\* C3: a present device that matches a class rule and a vendor/device rule at
\* once gets the driver of the class rule constructed, and the driver of the
\* vendor/device rule is never constructed for it.
ClassRuleWins ==
    (AtFunction /\ ClassRule(orig.cls) # "None" /\ VendorRule(orig.id) # "None") =>
        /\ ~Occurs(<< pci, VendorRule(orig.id) >>, constructed)
        /\ Dispatched => ConstructedAt(pci) = << << pci, ClassRule(orig.cls) >> >>

\* an XHCI controller with the identity of the Intel HDA codec is bound to
\* the XHCI driver
ClassRuleWinsWitness ==
    /\ Dispatched
    /\ orig.id = Ident(INTEL, INTELHDA_ICH6)
    /\ ClassRule(orig.cls) = "Xhci"
    /\ ConstructedAt(pci) = << << pci, "Xhci" >> >>
    /\ Len(SchemesAt(pci)) = 1

\* the class tier of pci_device takes the device: mass storage, or USB
ClassTierTakes(c) ==
    \/ ClassOf(c) = MASS_STORAGE
    \/ ClassOf(c) = SERIAL_BUS /\ SubclassOf(c) = USB

\* the one registry entry of the function at pci is the last of the registry
\* and names driver d
AppendedHere(d) ==
    /\ Len(SchemesAt(pci)) = 1
    /\ schemes[Len(schemes)].addr = pci
    /\ schemes[Len(schemes)].driver = d

\* the USB row for other interfaces (skip with a diagnostic) read as a rule
\* of the class tier
UsbOtherInterface(c) ==
    /\ ClassOf(c) = SERIAL_BUS
    /\ SubclassOf(c) = USB
    /\ InterfaceOf(c) \notin { XHCI, EHCI, OHCI, UHCI }

\* C4 as stated: whenever no class rule matches a present device, a device
\* that matches a vendor/device rule gets that driver constructed and
\* appended, mass storage with another subclass or interface included.
FallThroughWheneverNoClassRule ==
    (/\ Dispatched
     /\ ClassRule(orig.cls) = "None"
     /\ ~UsbOtherInterface(orig.cls)
     /\ VendorRule(orig.id) # "None") =>
        /\ ConstructedAt(pci) = << << pci, VendorRule(orig.id) >> >>
        /\ AppendedHere(VendorRule(orig.id))

\* C4, amended: a device whose class is neither mass storage nor serial-bus
\* USB and that matches a vendor/device rule gets that driver constructed and
\* appended; a mass-storage or USB device no class rule matches gets nothing
\* constructed and nothing appended, whatever its vendor and device.
FallThrough ==
    /\ (Dispatched /\ ~ClassTierTakes(orig.cls) /\ VendorRule(orig.id) # "None") =>
          /\ ConstructedAt(pci) = << << pci, VendorRule(orig.id) >> >>
          /\ AppendedHere(VendorRule(orig.id))
    /\ (Dispatched /\ ClassTierTakes(orig.cls) /\ ClassRule(orig.cls) = "None") =>
          /\ ConstructedAt(pci) = << >>
          /\ SchemesAt(pci) = << >>

\* a serial-bus function that is not USB, with the identity of the Intel HDA
\* codec, is bound to the Intel HDA driver; and one was seen before it
FallThroughWitness ==
    /\ Dispatched
    /\ ClassOf(orig.cls) = SERIAL_BUS
    /\ SubclassOf(orig.cls) # USB
    /\ AppendedHere("IntelHDA")
    /\ Len(schemes) >= 2

\* C5: the registry is in strictly ascending (bus, slot, function) order of
\* the addresses its entries come from, every entry is appended while the
\* scanner is at its address, and the scanner moves to strictly greater
\* addresses only.
AscendingOrder ==
    /\ [](\A j, k \in 1..Len(schemes) :
             j < k => LinOf(schemes[j].addr) < LinOf(schemes[k].addr))
    /\ [][schemes' # schemes =>
             /\ Len(schemes') = Len(schemes) + 1
             /\ SubSeq(schemes', 1, Len(schemes)) = schemes
             /\ schemes'[Len(schemes')].addr = pci]_vars
    /\ [][pci' # pci => (pci = << >> \/ LinOf(pci) < LinOf(pci'))]_vars

\* three functions at three addresses are registered
AscendingOrderWitness ==
    /\ pc = "done"
    /\ Len(schemes) = 3
    /\ schemes[1].addr = FirstSite
    /\ schemes[2].addr = SecondSite
    /\ schemes[3].addr = LastAddress

\* C6: no two registry entries come from the same address, and a present
\* device that matches no rule of either tier has no entry.
OneEntryPerAddress ==
    /\ \A j, k \in 1..Len(schemes) : j # k => schemes[j].addr # schemes[k].addr
    /\ (Dispatched /\ ClassRule(orig.cls) = "None" /\ VendorRule(orig.id) = "None")
          => SchemesAt(pci) = << >>

\* an IDE controller has its one entry, after two entries of other addresses
OneEntryPerAddressWitness ==
    /\ Dispatched
    /\ AppendedHere("Ide")
    /\ Len(schemes) = 3

\* C7: pci_init terminates; when it has, the identity register was read
\* TotalAddresses times; the k-th identity read is at the k-th address of the
\* scan order, and every address the scanner is at was read at offset 0 once.
ScanTerminates ==
    /\ <>(pc = "done")
    /\ [](pc = "done" => idReads = TotalAddresses)
    /\ [](pci # << >> =>
             Cardinality({ j \in 1..Len(accesses) : accesses[j].off = 0 }) = 1)
    /\ [][idReads' # idReads =>
             /\ idReads' = idReads + 1
             /\ pci' # pci
             /\ LinOf(pci') = idReads]_vars
    /\ [][pci' # pci => idReads' = idReads + 1]_vars

\* the scan is over with three present functions on the way
ScanTerminatesWitness ==
    /\ pc = "done"
    /\ idReads = TotalAddresses
    /\ present = 3
    /\ pci = LastAddress

\* the driver pci_device constructs for a function, from the rule tables:
\* the class tier for mass storage and USB, the vendor/device tier otherwise
RuleFor(c) == IF ClassTierTakes(c.cls) THEN ClassRule(c.cls) ELSE VendorRule(c.id)

\* C8 as stated: no device ends the scan, and the final registry has exactly
\* one entry per device a driver was constructed for and none for the others.
ScanResilientOneEach ==
    /\ Dispatched =>
          Len(SchemesAt(pci)) = (IF RuleFor(orig) = "None" THEN 0 ELSE 1)
    /\ pc = "done" =>
          /\ idReads = TotalAddresses
          /\ Len(schemes) = Len(constructed)

\* C8, amended: no device ends the scan; a device no rule takes has no
\* entry; a USB, network or audio device a rule takes has exactly one entry;
\* an IDE or AHCI controller has one entry when FileScheme::new yields Some
\* and none when it yields None; the final registry holds these entries only.
ScanResilient ==
    /\ Dispatched =>
          /\ ConstructedAt(pci) =
                (IF RuleFor(orig) = "None" THEN << >>
                 ELSE << << pci, RuleFor(orig) >> >>)
          /\ RuleFor(orig) = "None" => SchemesAt(pci) = << >>
          /\ RuleFor(orig) \in DiskDrivers =>
                SchemesAt(pci) \in { << >>, << Scheme(pci, RuleFor(orig), << >>) >> }
          /\ RuleFor(orig) \notin DiskDrivers \cup { "None" } =>
                AppendedHere(RuleFor(orig))
    /\ pc = "done" =>
          /\ idReads = TotalAddresses
          /\ \A j \in 1..Len(schemes) :
                Occurs(<< schemes[j].addr, schemes[j].driver >>, constructed)
          /\ \A j \in 1..Len(constructed) :
                /\ Len(SchemesAt(constructed[j][1])) <= 1
                /\ constructed[j][2] \notin DiskDrivers =>
                      Len(SchemesAt(constructed[j][1])) = 1
          /\ Len(schemes) <= Len(constructed)
          /\ Len(constructed) <= present

\* two functions no rule takes, then a network function at the last address:
\* the scan is over and the registry has the one entry
ScanResilientWitness ==
    /\ pc = "done"
    /\ idReads = TotalAddresses
    /\ present = 3
    /\ Len(schemes) = 1
    /\ schemes[1] = Scheme(LastAddress, "Rtl8139", << >>)

\* the accesses the probe of BAR k makes, for the value the BAR held; the
\* value of the read-back is left open
Step(o, off, v, open) == [op |-> o, off |-> off, val |-> v, any |-> open]

ExpectedBar(k) ==
    LET off == BarOffset(k)
        v == orig.bars[k + 1].val
    IN  IF v = Zero THEN << Step("read", off, v, FALSE) >>
        ELSE << Step("read", off, v, FALSE),
                Step("write", off, Ones, FALSE),
                Step("read", off, Zero, TRUE),
                Step("write", off, v, FALSE) >>

RECURSIVE ExpectedBars(_)
ExpectedBars(n) ==
    IF n = 0 THEN << >> ELSE ExpectedBars(n - 1) \o ExpectedBar(n - 1)

ExpectedScan ==
    << Step("read", 0, orig.id, FALSE), Step("read", 8, orig.cls, FALSE) >>
        \o ExpectedBars(NumBars)

\* the first n accesses are the first n expected ones
MatchesExpected(n) ==
    LET e == ExpectedScan
    IN  /\ n <= Len(accesses)
        /\ n <= Len(e)
        /\ \A j \in 1..n :
              /\ accesses[j].op = e[j].op
              /\ accesses[j].off = e[j].off
              /\ e[j].any \/ accesses[j].val = e[j].val

DebugFor(k, tags) == SelectSeq(debug, LAMBDA l : l.n = k /\ l.tag \in tags)

\* C9: the accesses of pci_init to the BARs of a present function are, BAR by
\* BAR in index order and with nothing between them: one read; and, only for
\* a value read that is not zero, a write of 0xFFFFFFFF, one read-back and a
\* write of the value first read.  A BAR that reads zero is not written and
\* has no size printed.
BarAccessSequence ==
    AtFunction =>
        /\ pc \in { "bar", "bar_ones", "bar_size", "bar_restore" } =>
              /\ MatchesExpected(Len(accesses))
              /\ Len(accesses) >= 2 + Len(ExpectedBars(i))
              /\ pc = "bar" => Len(accesses) = 2 + Len(ExpectedBars(i))
        /\ pc = "dispatch" =>
              /\ MatchesExpected(Len(accesses))
              /\ Len(accesses) = Len(ExpectedScan)
        /\ (pc = "mapped" \/ Dispatched) => MatchesExpected(Len(ExpectedScan))
        /\ \A k \in ProbedBars :
              orig.bars[k + 1].val = Zero => DebugFor(k, { "bar", "size" }) = << >>

\* the BAR loop of a function whose BAR0 is zero and whose other five BARs
\* are not is over: 2 + 1 + 5 * 4 accesses, the last a restore write
BarAccessSequenceWitness ==
    /\ pc = "dispatch"
    /\ orig.bars[1].val = Zero
    /\ Len(accesses) = 23
    /\ accesses[3] = Rd(BarOffset(0), Zero)
    /\ accesses[5] = Wr(BarOffset(1), Ones)
    /\ accesses[23] = Wr(BarOffset(5), orig.bars[6].val)

\* 2^32 - (w & ~0xF), modulo 2^32
SizeOf(w) ==
    LET low == w.lo - (w.lo % 16)
    IN  IF low = 0 THEN W((Half - w.hi) % Half, 0)
        ELSE W(Half - 1 - w.hi, Half - low)

\* the value read back from BAR k after 0xFFFFFFFF was written to it
ReadBack(k) ==
    LET j == CHOOSE n \in 1..Len(accesses) : accesses[n] = Wr(BarOffset(k), Ones)
    IN  accesses[j + 1].val

\* C10 as stated: the size printed for a BAR whose first value v is not zero
\* is (0xFFFFFFFF - (v & ~0xF)) + 1; for v = 0 no size is printed.
SizeFromOriginal ==
    \A k \in ProbedBars :
        DebugFor(k, { "size" }) =
            (IF orig.bars[k + 1].val = Zero THEN << >>
             ELSE << Line("size", k, SizeOf(orig.bars[k + 1].val)) >>)

\* C10, amended: the size computed for a BAR whose first value is not zero
\* is (0xFFFFFFFF - (r & ~0xF)) + 1 in 32-bit arithmetic, r being the value
\* read back after 0xFFFFFFFF was written; it is printed when it is not zero;
\* for a first value of zero no size is printed.
SizeFromReadBack ==
    /\ (AtFunction /\ pc = "bar_restore") => size = SizeOf(ReadBack(i))
    /\ \A k \in ProbedBars :
          DebugFor(k, { "size" }) =
              (IF orig.bars[k + 1].val = Zero \/ SizeOf(ReadBack(k)) = Zero
               THEN << >>
               ELSE << Line("size", k, SizeOf(ReadBack(k))) >>)

\* BAR0 = 0xFE000004 was sized 4 KiB, BAR5 = 0xE0000000 512 MiB, BAR2 =
\* 0xFFFFFFFF 16 bytes, and the read-only BAR4 = 0x00000008 has no size
SizeFromReadBackWitness ==
    /\ pc = "dispatch"
    /\ orig.bars[1].val = W(65024, 4)
    /\ DebugFor(0, { "size" }) = << Line("size", 0, W(0, 4096)) >>
    /\ DebugFor(5, { "size" }) = << Line("size", 5, W(8192, 0)) >>
    /\ DebugFor(2, { "size" }) = << Line("size", 2, W(0, 16)) >>
    /\ DebugFor(3, { "size" }) = << Line("size", 3, W(0, 32)) >>
    /\ DebugFor(4, { "size" }) = << >>
    /\ DebugFor(1, { "size" }) = << >>

\* the entries of a registry that are not disk controllers'
NotDisks(reg) == SelectSeq(reg, LAMBDA e : e.driver \notin DiskDrivers)

\* FileScheme::new succeeded for the same disk controllers in both runs
SameDisks ==
    \A j \in 1..Len(constructed) :
        constructed[j][2] \in DiskDrivers =>
            ((SchemesAt(constructed[j][1]) = << >>) <=>
             (SelectSeq(twin.st.schemes,
                        LAMBDA e : e.addr = constructed[j][1]) = << >>))

OnesWriteAt(k) ==
    CHOOSE n \in 1..Len(accesses) : accesses[n] = Wr(BarOffset(k), Ones)

\* bits 31..4 of a word are all clear
HighBitsClear(w) == w.hi = 0 /\ w.lo < 16

\* C11: when the value read back from a BAR after 0xFFFFFFFF was written has
\* bits 31..4 all clear, the size computes to 0 in 32-bit arithmetic; the
\* probe prints no size for that BAR, writes the value first read back to it
\* as the very next access, and goes on with the next BAR and with the scan.
ZeroSizeNoWindow ==
    /\ (AtFunction /\ pc = "bar_restore" /\ HighBitsClear(ReadBack(i))) =>
          size = Zero
    /\ \A k \in ProbedBars :
          (orig.bars[k + 1].val # Zero /\ HighBitsClear(ReadBack(k))) =>
              /\ DebugFor(k, { "size" }) = << >>
              /\ DebugFor(k, { "bar" }) =
                    << Line("bar", k, orig.bars[k + 1].val) >>
              /\ Len(accesses) >= OnesWriteAt(k) + 2
              /\ accesses[OnesWriteAt(k) + 2] =
                    Wr(BarOffset(k), orig.bars[k + 1].val)
              /\ cfg.bars[k + 1].val = orig.bars[k + 1].val
    /\ pc = "done" => idReads = TotalAddresses

\* BAR0 holds the read-only value 0x00000008: it read back 0x00000008 after
\* the probe pattern, had no size printed and was written back; the BAR after
\* it was sized, and the function was dispatched
ZeroSizeNoWindowWitness ==
    /\ Dispatched
    /\ orig.bars[1].val = W(0, 8)
    /\ accesses[4] = Wr(BarOffset(0), Ones)
    /\ accesses[5] = Rd(BarOffset(0), W(0, 8))
    /\ accesses[6] = Wr(BarOffset(0), W(0, 8))
    /\ DebugFor(0, { "size" }) = << >>
    /\ DebugFor(1, { "size" }) = << Line("size", 1, W(8192, 0)) >>

\* C12: once a driver has been constructed for an address, the scanner makes
\* no further configuration access to that address: while it stays there the
\* access log and the configuration space do not change, every constructed
\* driver is at the scanner's address or behind it, and the scanner only
\* moves on to addresses beyond those of all constructed drivers.
NoAccessAfterConstruction ==
    /\ [][(ConstructedAt(pci) # << >> /\ pci' = pci) =>
             (accesses' = accesses /\ cfg' = cfg)]_vars
    /\ [](\A j \in 1..Len(constructed) :
             LinOf(constructed[j][1]) <= LinOf(pci))
    /\ [][pci' # pci =>
             /\ accesses' = << Rd(0, orig'.id) >>
             /\ \A j \in 1..Len(constructed') :
                   LinOf(constructed'[j][1]) < LinOf(pci')]_vars

\* an XHCI controller was constructed at the second site after its BAR0 and
\* interrupt line were read, and the scanner has since probed and dispatched
\* the function at the last address
NoAccessAfterConstructionWitness ==
    /\ pc = "done"
    /\ Len(constructed) >= 2
    /\ \E j \in 1..Len(constructed) :
          constructed[j] = << SecondSite, "Xhci" >>
    /\ constructed[Len(constructed)][1] = LastAddress
    /\ Len(accesses) > 2

\* C14: a function bound to the XHCI or the Intel HDA driver gets exactly one
\* registry entry, whose base is the function's BAR0 with the low 4 bits
\* cleared, whose memory_mapped flag is TRUE exactly when bit 0 of BAR0 is 0,
\* and whose irq is the low nibble of the byte at offset 0x3C.
MappedParameters ==
    (Dispatched /\ RuleFor(orig) \in MappedDrivers) =>
        LET bar0 == orig.bars[1].val IN
        /\ ConstructedAt(pci) = << << pci, RuleFor(orig) >> >>
        /\ SchemesAt(pci) =
              << Scheme(pci, RuleFor(orig),
                        << W(bar0.hi, bar0.lo - (bar0.lo % 16)),
                           bar0.lo % 2 = 0,
                           orig.irq.lo % 16 >>) >>

\* an XHCI controller with BAR0 = 0xFE000004 and interrupt line 0x0B is
\* registered with base 0xFE000000, memory mapped, irq 11
MappedParametersWitness ==
    /\ Dispatched
    /\ orig.cls = ClassReg(SERIAL_BUS, USB, XHCI, 0)
    /\ orig.bars[1].val = W(65024, 4)
    /\ SchemesAt(pci) = << Scheme(pci, "Xhci", << W(65024, 0), TRUE, 11 >>) >>

\* bits high..low of a 32-bit word (both in one half, or the whole word)
Bits(w, high, low) ==
    IF low >= 16 THEN (w.hi \div Pow2(low - 16)) % Pow2(high - low + 1)
    ELSE (w.lo \div Pow2(low)) % Pow2(high - low + 1)

\* the class register with its revision byte replaced
WithRevision(c, r) == W(c.hi, (c.lo - (c.lo % 256)) + r)

\* the driver for the keys at the bit positions the claim names
KeyedDriver(ident, class) ==
    Driver(Bits(class, 31, 24), Bits(class, 23, 16), Bits(class, 15, 8),
           Bits(ident, 15, 0), Bits(ident, 31, 16))

\* C15: pci_device is called with vendor = bits 15..0 and device = bits
\* 31..16 of the identity register, class = bits 31..24, subclass = bits
\* 23..16 and interface = bits 15..8 of the class register; the revision
\* byte, bits 7..0, has no influence: the outcome for a function is the
\* outcome for the same registers with any other revision.
DispatchKeys ==
    /\ (AtFunction /\ pc \in { "dispatch", "mapped" }) =>
          /\ VendorOf(id) = Bits(orig.id, 15, 0)
          /\ DeviceOf(id) = Bits(orig.id, 31, 16)
          /\ ClassOf(class_id) = Bits(orig.cls, 31, 24)
          /\ SubclassOf(class_id) = Bits(orig.cls, 23, 16)
          /\ InterfaceOf(class_id) = Bits(orig.cls, 15, 8)
          /\ \A r \in { 0, 1, 128, 255 } :
                Chosen = KeyedDriver(orig.id, WithRevision(orig.cls, r))
    /\ Dispatched =>
          \A r \in { 0, 1, 128, 255 } :
              LET d == KeyedDriver(orig.id, WithRevision(orig.cls, r)) IN
              /\ ConstructedAt(pci) =
                    (IF d \in { "None", "UnknownUsb" } THEN << >>
                     ELSE << << pci, d >> >>)
              /\ \A j \in 1..Len(SchemesAt(pci)) : SchemesAt(pci)[j].driver = d

\* a network function with revision 7 got the driver the same function has
\* with revision 0, and an XHCI controller with revision 3 is an XHCI
\* controller
DispatchKeysWitness ==
    /\ pc = "done"
    /\ Len(schemes) = 3
    /\ schemes[1] = Scheme(FirstSite, "Intel8254x", << >>)
    /\ \E j \in 1..Len(schemes) :
          /\ schemes[j].addr = SecondSite
          /\ schemes[j].driver = "Xhci"
    /\ orig.id = Ident(INTEL, GBE_82540EM)
    /\ orig.cls = ClassReg(2, 0, 0, 7)
    /\ schemes[Len(schemes)] = Scheme(LastAddress, "Intel8254x", << >>)

\* C16: a present USB function whose interface is none of XHCI, EHCI, OHCI
\* and UHCI gets one diagnostic line carrying the interface id, no driver and
\* no registry entry, whatever its vendor and device ids; the scanner then
\* probes the next address.
UnknownUsbSkipped ==
    /\ []((Dispatched /\ UsbOtherInterface(orig.cls)) =>
             /\ SelectSeq(debug, LAMBDA l : l.tag = "usb") =
                   << Line("usb", (orig.cls.lo \div 256) % 256, Zero) >>
             /\ ConstructedAt(pci) = << >>
             /\ SchemesAt(pci) = << >>
             /\ iter = IterNext(pci))
    /\ [][(Dispatched /\ UsbOtherInterface(orig.cls) /\ iter # IterEnd) =>
             (pci' = iter /\ accesses' = << Rd(0, orig'.id) >>)]_vars
    /\ []((AtFunction /\ ~UsbOtherInterface(orig.cls)) =>
             SelectSeq(debug, LAMBDA l : l.tag = "usb") = << >>)

\* a USB controller with interface 0xFE and the ids of the RTL8139 at the
\* last address left the diagnostic, nothing was constructed or registered
\* for it, and pci_init returned
UnknownUsbSkippedWitness ==
    /\ pc = "done"
    /\ pci = LastAddress
    /\ orig.id = Ident(REALTEK, RTL8139)
    /\ orig.cls = ClassReg(SERIAL_BUS, USB, 254, 0)
    /\ debug[Len(debug)] = Line("usb", 254, Zero)
    /\ ConstructedAt(LastAddress) = << >>
    /\ SchemesAt(LastAddress) = << >>

\* the vendor/device table, by identity register
PairTable ==
    [ v \in { Ident(REALTEK, RTL8139), Ident(INTEL, GBE_82540EM),
              Ident(INTEL, AC97_82801AA), Ident(INTEL, AC97_ICH4),
              Ident(INTEL, INTELHDA_ICH6) } |->
        IF v = Ident(REALTEK, RTL8139) THEN "Rtl8139"
        ELSE IF v = Ident(INTEL, GBE_82540EM) THEN "Intel8254x"
        ELSE IF v = Ident(INTEL, INTELHDA_ICH6) THEN "IntelHDA"
        ELSE "AC97" ]

\* C17: a present function whose class is neither mass storage nor
\* serial-bus USB is dispatched by its (vendor, device) pair alone, whatever
\* the class register holds: vendor 0x8086 with device 0x100E gets exactly
\* one network driver constructed and appended, every pair of the table gets
\* the table's driver, and a pair outside the table gets nothing constructed
\* and nothing appended.
VendorDeviceDispatch ==
    (Dispatched /\ orig.cls.hi \div 256 # MASS_STORAGE
                /\ orig.cls.hi # SERIAL_BUS * 256 + USB) =>
        /\ orig.id = W(4110, 32902) =>
              /\ ConstructedAt(pci) = << << pci, "Intel8254x" >> >>
              /\ SchemesAt(pci) = << Scheme(pci, "Intel8254x", << >>) >>
              /\ schemes[Len(schemes)].addr = pci
        /\ orig.id \in DOMAIN PairTable =>
              /\ ConstructedAt(pci) = << << pci, PairTable[orig.id] >> >>
              /\ Len(SchemesAt(pci)) = 1
              /\ SchemesAt(pci)[1].driver = PairTable[orig.id]
        /\ orig.id \notin DOMAIN PairTable =>
              /\ ConstructedAt(pci) = << >>
              /\ SchemesAt(pci) = << >>

\* the function at bus 0, slot 1 with class register 0x02000000 and identity
\* 8086:100E is registered as a network driver, and a Realtek function with
\* an unknown device id and the same class was left without an entry
VendorDeviceDispatchWitness ==
    /\ Dispatched
    /\ schemes = << Scheme(FirstSite, "Intel8254x", << >>) >>
    /\ constructed = << << FirstSite, "Intel8254x" >> >>
    /\ pci = SecondSite
    /\ orig.id = Ident(REALTEK, 33128)
    /\ orig.cls = ClassReg(2, 0, 0, 0)

\* C18: pci_device runs only after all six BARs of the function were probed
\* and restored: when it is entered every BAR holds its original value and
\* every BAR that does not read zero has been written 0xFFFFFFFF and then its
\* original value; the BAR0 value the XHCI and Intel HDA branches read for
\* the base is the original BAR0.
DispatchAfterProbe ==
    /\ (AtFunction /\ (pc \in { "dispatch", "mapped" } \/ Dispatched)) =>
          /\ Len(accesses) >= Len(ExpectedScan)
          /\ \A k \in 0..(NumBars - 1) :
                /\ Occurs(Rd(BarOffset(k), orig.bars[k + 1].val), accesses)
                /\ orig.bars[k + 1].val # Zero =>
                      \E m, n \in 1..Len(ExpectedScan) :
                          /\ m < n
                          /\ accesses[m] = Wr(BarOffset(k), Ones)
                          /\ accesses[n] = Wr(BarOffset(k), orig.bars[k + 1].val)
    /\ (AtFunction /\ pc = "dispatch") =>
          \A k \in 0..(NumBars - 1) : cfg.bars[k + 1].val = orig.bars[k + 1].val
    /\ (AtFunction /\ pc = "mapped") =>
          /\ base = orig.bars[1].val
          /\ accesses[Len(accesses)] = Rd(BarOffset(0), orig.bars[1].val)
          /\ Len(accesses) = Len(ExpectedScan) + 1
    /\ (Dispatched /\ SchemesAt(pci) # << >>
           /\ SchemesAt(pci)[1].driver \in MappedDrivers) =>
          accesses[Len(ExpectedScan) + 1] = Rd(BarOffset(0), orig.bars[1].val)

\* BAR0 = 0xFE000004 was overwritten with 0xFFFFFFFF, read back as 0xFFFFF004
\* and restored during the probe, and the XHCI branch then read 0xFE000004
DispatchAfterProbeWitness ==
    /\ pc = "mapped"
    /\ Chosen = "Xhci"
    /\ accesses[4] = Wr(BarOffset(0), Ones)
    /\ accesses[5] = Rd(BarOffset(0), W(65535, 61444))
    /\ accesses[6] = Wr(BarOffset(0), W(65024, 4))
    /\ base = W(65024, 4)

\* C19: every write of the scan and dispatch layer is to one of the six BAR
\* offsets 0x10..0x24 of a present function, and to a BAR that did not read
\* zero; an absent function is never written; the identity, class and
\* interrupt-line registers are never written and hold their values.
WritesOnlyBars ==
    /\ \A j \in 1..Len(accesses) :
          accesses[j].op = "write" =>
              /\ orig.id.lo # 65535
              /\ accesses[j].off \in { 16, 20, 24, 28, 32, 36 }
              /\ orig.bars[((accesses[j].off - 16) \div 4) + 1].val # Zero
    /\ pci # << >> =>
          /\ cfg.id = orig.id
          /\ cfg.cls = orig.cls
          /\ cfg.irq = orig.irq
          /\ \A k \in 1..NumBars : orig.bars[k].val = Zero => cfg.bars[k] = orig.bars[k]
    /\ (pci # << >> /\ orig.id.lo = 65535) => cfg = orig

\* a function with five BARs that do not read zero was written ten times, at
\* BAR offsets only, and an XHCI driver was built from its registers, which
\* still hold their values
WritesOnlyBarsWitness ==
    /\ Dispatched
    /\ ConstructedAt(pci) = << << pci, "Xhci" >> >>
    /\ Cardinality({ j \in 1..Len(accesses) : accesses[j].op = "write" }) = 10
    /\ Occurs(Rd(IrqOffset, orig.irq), accesses)
    /\ cfg = orig

\* C20: a MouseEvent sent through to_event and to_option arrives as Mouse
\* with the same x, y and buttons, a KeyEvent as Key with the same character,
\* scancode and pressed flag, a RedrawEvent as Redraw with the same value; an
\* Event with code '\0' maps to None and one with any other code that is not
\* 'm', 'k', 'r' or 'o' maps to Unknown, holding the event itself.
EventRoundTrip ==
    ev.stage = "option" =>
        /\ ev.typed.kind = "Mouse" =>
              /\ ev.option.tag = "Mouse"
              /\ ev.option.val.x = ev.typed.x
              /\ ev.option.val.y = ev.typed.y
              /\ ev.option.val.left_button = ev.typed.left_button
              /\ ev.option.val.middle_button = ev.typed.middle_button
              /\ ev.option.val.right_button = ev.typed.right_button
        /\ ev.typed.kind = "Key" =>
              /\ ev.option.tag = "Key"
              /\ ev.option.val.character = ev.typed.character
              /\ ev.option.val.scancode = ev.typed.scancode
              /\ ev.option.val.pressed = ev.typed.pressed
        /\ ev.typed.kind = "Redraw" =>
              /\ ev.option.tag = "Redraw"
              /\ ev.option.val.redraw = ev.typed.redraw
        /\ (ev.typed.kind = "Raw" /\ ev.event.code = 0) =>
              ev.option.tag = "None"
        /\ (ev.typed.kind = "Raw" /\ ev.event.code \notin { 109, 107, 114, 111, 0 }) =>
              /\ ev.option.tag = "Unknown"
              /\ ev.option.val = ev.event

\* a mouse event at (-1, 2147483647) with the right button down and the
\* middle button up went through Event and came out as the same mouse event
EventRoundTripWitness ==
    /\ ev.stage = "option"
    /\ ev.typed = [kind |-> "Mouse", x |-> -1, y |-> 2147483647,
                   left_button |-> FALSE, right_button |-> TRUE,
                   middle_button |-> FALSE]
    /\ ev.event = [code |-> 109, a |-> -1, b |-> 2147483647, c |-> 0, d |-> 0,
                   e |-> 1]
    /\ ev.option = [tag |-> "Mouse", val |-> ev.typed]

====
